---- MODULE Spec2Model ----
(***************************************************************************)
(* A model of the validator report pipeline of OpenGov:                    *)
(*   src/validator-cli.js   the command-line report (cache, connection     *)
(*                          failover, batched enrichment, estimate)        *)
(*   src/unnamed/part_000   the earlier report script, whose estimate      *)
(*                          carries a calibration for one test validator   *)
(*   src/voteCLIgen.js      the voting workflows (with src/unnamed/part_001)*)
(*                                                                         *)
(* Amounts.  TLC's integers are 32 bits wide, and a balance in planck      *)
(* (10^10 per DOT) does not fit.  On-chain amounts are therefore carried   *)
(* in units of 10^6 planck = 0.0001 DOT, the resolution toFixed(4) prints, *)
(* and the code's division by 1e10 becomes a division by UnitsPerDot.      *)
(* Arithmetic is exact (rational); a formatted number is the record        *)
(* [w, f, d]: the digits before the point, the d digits after it.          *)
(***************************************************************************)
EXTENDS Integers, Sequences, FiniteSets, TLC

(***************************************************************************)
(* Bounds of the model.                                                    *)
(***************************************************************************)
\* the longest exposure.others list drawn for the estimate
MaxOthers == 2
\* the number of records of the nominators registry drawn for the estimate
MaxNominators == 3

(***************************************************************************)
(* Program constants.                                                      *)
(***************************************************************************)
\* Number(x) / 1e10 followed by toFixed(4): 10^4 printed units per DOT
UnitsPerDot == 10000
\* commission / 10000000: perbill to percent
PerbillPerPercent == 10000000
\* commissionPct < 5
LowCommissionPct == 5
\* commissionPct > 15
HighCommissionPct == 15
\* the multipliers 0.6, 0.7, 0.8, in tenths
LowMultiplier == 6
BaseMultiplier == 7
HighMultiplier == 8
MultiplierDen == 10
\* CONFIG.expectedValues.inactiveNomination = 2783408.3835 (part_000)
ExpectedInactiveWhole == 2783408
ExpectedInactiveFrac == 3835

\* DEFAULT_CONFIG.testValidator
TestValidator == "14zfiH2sMH955cG2yKUQbHSP3oQ8W4Ai9p9wSSZunvQ4TU4k"

(***************************************************************************)
(* Number formatting.                                                      *)
(***************************************************************************)
Max(a, b) == IF a >= b THEN a ELSE b

Pow10(d) == CASE d = 0 -> 1 [] d = 2 -> 100 [] d = 4 -> 10000

\* num/den rounded to the nearest integer, halves upwards (num >= 0, den > 0)
RoundDiv(num, den) == (2 * num + den) \div (2 * den)

\* the string Number.prototype.toFixed(d) prints for n / 10^d
Fixed(n, d) == [w |-> n \div Pow10(d), f |-> n % Pow10(d), d |-> d]

\* the literal '0.00' of the row substituted for a failed validator
ZeroLiteral == [w |-> 0, f |-> 0, d |-> 2]

\* (a + b).toFixed(4) of two amounts printed with 4 decimals
AddFixed4(a, b) ==
    [w |-> a.w + b.w + ((a.f + b.f) \div UnitsPerDot),
     f |-> (a.f + b.f) % UnitsPerDot,
     d |-> 4]

\* parseFloat of a formatted number, as the pair <<whole, 10^-4 units>>
ParseFloat(s) == <<s.w, s.f * (UnitsPerDot \div Pow10(s.d))>>

(***************************************************************************)
(* The nominators map: nominator => targets.  A registry record is         *)
(* [nominator, decodes, targets]; decodes = FALSE is a record whose        *)
(* nominations.unwrap().targets throws.                                    *)
(***************************************************************************)
RECURSIVE BuildNominatorsMapAborts(_, _)
BuildNominatorsMapAborts(nominatorsData, map) ==
    IF nominatorsData = <<>> THEN map
    ELSE LET rec == Head(nominatorsData)
         IN IF rec.decodes
            THEN BuildNominatorsMapAborts(Tail(nominatorsData),
                     [n \in DOMAIN map \cup {rec.nominator} |->
                         IF n = rec.nominator THEN rec.targets ELSE map[n]])
            ELSE map

RECURSIVE BuildNominatorsMap(_, _)
BuildNominatorsMap(nominatorsData, map) ==
    IF nominatorsData = <<>> THEN map
    ELSE LET rec == Head(nominatorsData)
             \* nominatorsMap[nominator] = targets, skipped when decoding throws
             next == IF rec.decodes
                     THEN [n \in DOMAIN map \cup {rec.nominator} |->
                             IF n = rec.nominator THEN rec.targets ELSE map[n]]
                     ELSE map
         IN BuildNominatorsMap(Tail(nominatorsData), next)

EmptyMap == [n \in {} |-> <<>>]

NominatorsMapOfNothing(nominatorsData) == EmptyMap

NominatorsMapOf(nominatorsData) == BuildNominatorsMap(nominatorsData, EmptyMap)

Includes(targets, v) == \E i \in 1..Len(targets) : targets[i] = v

TargetingNominatorsFirstTarget(nominatorsMap, validatorAddress) ==
    {n \in DOMAIN nominatorsMap :
        nominatorsMap[n] # <<>> /\ nominatorsMap[n][1] = validatorAddress}

\* the nominators whose target list includes the validator
TargetingNominators(nominatorsMap, validatorAddress) ==
    {n \in DOMAIN nominatorsMap : Includes(nominatorsMap[n], validatorAddress)}

(***************************************************************************)
(* The estimate of processValidatorsBatch, one local of the code per       *)
(* operator.  raw = [validator, commission, selfBond, others,              *)
(* nominatorsMap]: commission in perbill, selfBond and the values of       *)
(* others in units.                                                        *)
(***************************************************************************)
RECURSIVE SumValues(_)
SumValues(others) ==
    IF others = <<>> THEN 0 ELSE Head(others) + SumValues(Tail(others))

\* exposureData.others.reduce(sum + Number(other.value) / 1e10), in units
ActiveStake(raw) == SumValues(raw.others)

ActiveNominatorCount(raw) == Len(raw.others)

TotalNominatorCount(raw) ==
    Cardinality(TargetingNominators(raw.nominatorsMap, raw.validator))

InactiveNominatorCountMissingClamp(raw) ==
    TotalNominatorCount(raw) - ActiveNominatorCount(raw)

\* Math.max(0, totalNominatorCount - activeNominatorCount)
InactiveNominatorCount(raw) ==
    Max(0, TotalNominatorCount(raw) - ActiveNominatorCount(raw))

InactiveMultiplierInclusiveTiers(commission) ==
    IF commission <= LowCommissionPct * PerbillPerPercent THEN LowMultiplier
    ELSE IF commission >= HighCommissionPct * PerbillPerPercent THEN HighMultiplier
    ELSE BaseMultiplier

\* the commission tier's multiplier, in tenths; commissionPct = commission / 1e7
InactiveMultiplier(commission) ==
    IF commission < LowCommissionPct * PerbillPerPercent THEN LowMultiplier
    ELSE IF commission > HighCommissionPct * PerbillPerPercent THEN HighMultiplier
    ELSE BaseMultiplier

\* whether the estimate is computed at all (else inactiveStake stays 0)
EstimatesInactive(raw) ==
    ActiveNominatorCount(raw) > 0 /\ InactiveNominatorCount(raw) > 0

InactiveStakeFixedPerNominator(raw) ==
    IF EstimatesInactive(raw)
    THEN Fixed(RoundDiv(ActiveStake(raw) * InactiveMultiplier(raw.commission),
                        ActiveNominatorCount(raw) * MultiplierDen), 4)
    ELSE Fixed(0, 4)

\* inactiveStake.toFixed(4) of validator-cli.js:
\* avgActiveStakePerNominator * inactiveMultiplier * inactiveNominatorCount
InactiveStakeFixed(raw) ==
    IF EstimatesInactive(raw)
    THEN Fixed(RoundDiv(ActiveStake(raw) * InactiveMultiplier(raw.commission)
                            * InactiveNominatorCount(raw),
                        ActiveNominatorCount(raw) * MultiplierDen), 4)
    ELSE Fixed(0, 4)

CommissionPctOfPermill(commission) ==
    RoundDiv(commission, (PerbillPerPercent \div 10) \div 100)

\* commissionPct = commission / 10000000, in hundredths of a percent as
\* toFixed(2) prints it
CommissionPct(commission) == RoundDiv(commission, PerbillPerPercent \div 100)

\* the row of one validator, given its inactive stake as printed
Row(raw, inactive) ==
    [Validator |-> raw.validator,
     SelfBond |-> Fixed(raw.selfBond, 4),
     ActiveNomination |-> Fixed(ActiveStake(raw), 4),
     InactiveNomination |-> inactive,
     TotalNomination |-> AddFixed4(Fixed(ActiveStake(raw), 4), inactive),
     TotalActiveStake |-> Fixed(raw.selfBond + ActiveStake(raw), 4),
     Commission |-> Fixed(CommissionPct(raw.commission), 2),
     Nominators |-> <<ActiveNominatorCount(raw), TotalNominatorCount(raw)>>]

\* the row validator-cli.js returns for a validator whose queries succeeded
ProcessValidator(raw) == Row(raw, InactiveStakeFixed(raw))

\* the row returned from the catch block
FailedRow(validator) ==
    [Validator |-> validator,
     SelfBond |-> ZeroLiteral,
     ActiveNomination |-> ZeroLiteral,
     InactiveNomination |-> ZeroLiteral,
     TotalNomination |-> ZeroLiteral,
     TotalActiveStake |-> ZeroLiteral,
     Commission |-> ZeroLiteral,
     Nominators |-> <<0, 0>>]

(***************************************************************************)
(* The estimate of part_000: the same, but the test validator's multiplier *)
(* is idealMultiplier = expectedInactive / (avg * inactiveNominatorCount), *)
(* so that its inactive stake is the expected value itself (the values of  *)
(* exposure.others are positive, so avg > 0).                              *)
(***************************************************************************)
IsTestValidator(raw) == raw.validator = TestValidator

InactiveStakeFixedData(raw) ==
    IF EstimatesInactive(raw) /\ IsTestValidator(raw)
    THEN [w |-> ExpectedInactiveWhole, f |-> ExpectedInactiveFrac, d |-> 4]
    ELSE InactiveStakeFixed(raw)

\* whether the multiplier applied by part_000 is the commission tier's
UsesTierMultiplierData(raw) == ~(EstimatesInactive(raw) /\ IsTestValidator(raw))

ProcessValidatorData(raw) == Row(raw, InactiveStakeFixedData(raw))


(***************************************************************************)
(* The run of getValidators.                                               *)
(***************************************************************************)
\* more bounds: the runs that share the cache file, and the clock
MaxRuns == 3
MaxNow == 3
\* DEFAULT_CONFIG.cacheTimeout (3600000 ms), in clock ticks
CacheTimeout == 2
\* DEFAULT_CONFIG.batchSize (25) and DEFAULT_CONFIG.maxValidators (100),
\* scaled to the four validators of the modelled chain
BatchSize == 2
MaxValidators == 3

\* DEFAULT_CONFIG.providers.length
NumProviders == 3
Endpoints == 1..NumProviders

\* options.validator = null, options.limit = null
NoValidator == "null"
NoLimit == 0

\* what ApiPromise.create does for an endpoint: resolve, reject, or neither.
\* new WsProvider(endpoint, 60000) sets the provider's reconnect delay; no
\* timer of the code races the await.
Behaviours == {"ok", "refuse", "silent"}

(***************************************************************************)
(* The chain the runs read: session.validators(), and per validator the    *)
(* preferences, the ledger and the era's exposure; the nominators registry.*)
(***************************************************************************)
SessionValidators == <<"V1", "V2", "V3", "V4">>

ChainCommission(v) ==
    CASE v = "V1" -> 30000000
      [] v = "V2" -> 50000000
      [] v = "V3" -> 200000000
      [] OTHER -> 0

ChainSelfBond(v) ==
    CASE v = "V1" -> 1000000
      [] v = "V2" -> 1000000
      [] v = "V3" -> 2000000
      [] OTHER -> 90000000

ChainOthers(v) ==
    CASE v = "V1" -> <<10000000>>
      [] v = "V2" -> <<10000000>>
      [] v = "V3" -> <<10000000, 3>>
      [] OTHER -> <<>>

ChainNominators ==
    << [nominator |-> 1, decodes |-> TRUE, targets |-> <<"V1", "V2">>],
       [nominator |-> 2, decodes |-> TRUE, targets |-> <<"V1", "V3">>],
       [nominator |-> 3, decodes |-> FALSE, targets |-> <<>>],
       [nominator |-> 4, decodes |-> TRUE, targets |-> <<"V1", "V4">>] >>

\* the validators whose queries may throw
FlakyValidators == {"V2"}

\* what the three queries of one validator return
ChainRaw(v, map) ==
    [validator |-> v, commission |-> ChainCommission(v),
     selfBond |-> ChainSelfBond(v), others |-> ChainOthers(v),
     nominatorsMap |-> map]

VARIABLES
    est,            \* the estimate on drawn inputs (EstSpec)
    now,            \* Date.now(), in ticks
    run,            \* the runs started so far
    cacheFile,      \* DEFAULT_CONFIG.cacheFile
    options,        \* the parsed command line
    pc,             \* where getValidators is
    endpoint,       \* the index of connectToNetwork's loop
    provider,       \* the WsProvider created for each endpoint
    behaviour,      \* what each attempted endpoint does
    attempts,       \* the endpoints attempted, in order ("Attempting to connect")
    api,            \* getValidators' api: 0 is undefined, else its endpoint
    nominatorsMap,  \* nominator => targets
    processValidators, \* the validators to enrich
    i,              \* the batch loop's index
    worker,         \* the callbacks started in the run, by validator
    results,        \* the accumulated rows
    output,         \* what the run printed
    cachedData,     \* what loadCache returned to getValidators
    validators,     \* what session.validators() returned
    sameScope,      \* whether the run has the options of the run before it
    cacheLog,       \* what saveCache logged in the run: saved, error, or none
    exitCode,       \* the exit code of the last process that ended by itself
    loop,           \* the batch loop on drawn lists (LoopSpec)
    vote            \* a voting workflow from its confirmation prompt (VoteSpec)

vars == <<est, vote, now, run, cacheFile, options, pc, endpoint, provider, behaviour,
          attempts, api, nominatorsMap, processValidators, i, worker, results,
          output, cachedData, validators, sameScope, cacheLog, exitCode, loop>>

runLocals == <<endpoint, provider, behaviour, attempts, api, nominatorsMap,
               processValidators, i, worker, results, cachedData, validators>>

\* The cache file.  kind is what its text is: "entry" is what saveCache writes,
\* "unparseable" is text JSON.parse rejects, "null" the JSON value null,
\* "notimestamp" a JSON value with no timestamp property (a number, a string,
\* an array, an object without it), "digits" an entry whose timestamp is a
\* string of the digits of the number, "baddata" an entry whose data is a
\* number instead of the array.
NoFile == [exists |-> FALSE, kind |-> "absent", timestamp |-> 0, data |-> <<>>,
           scope |-> "none"]
CorruptKinds == {"unparseable", "null", "notimestamp", "digits", "baddata"}
LoopIdle == [pc |-> "idle"]
VoteIdle == [pc |-> "idle"]
\* The file while fs.writeFileSync is writing it: opened with truncation, it
\* holds a proper prefix of the new text, which JSON.parse rejects.
PartialFile == [exists |-> TRUE, kind |-> "partial", timestamp |-> 0,
                data |-> <<>>, scope |-> "none"]
\* no process has ended yet, or the last one was killed
NoExit == -1
NoWorkers == [v \in {} |-> "done"]
NoOutput == [kind |-> "none", rows |-> <<>>, source |-> "none"]
EstIdle == [pc |-> "idle"]

\* slice(0, n)
Slice(s, n) == SubSeq(s, 1, IF n < Len(s) THEN n ELSE Len(s))

\* the null loadCache returns; logged is whether its catch block ran
Miss(logged) == [hit |-> FALSE, data |-> <<>>, array |-> FALSE, logged |-> logged]

\* return cacheData.data; array is whether the value is an array
Hit(file) == [hit |-> TRUE, data |-> file.data, array |-> file.kind # "baddata",
              logged |-> FALSE]

\* cacheData.timestamp as the operand of now - cacheData.timestamp: a missing
\* property is undefined and gives NaN, a string of digits is converted to
\* the number it spells
ToNumber(file) ==
    IF file.kind = "notimestamp" THEN [nan |-> TRUE, n |-> 0]
    ELSE [nan |-> FALSE, n |-> file.timestamp]

loadCacheInclusiveTTL(file, opts, t) ==
    IF ~file.exists \/ opts.refresh THEN Miss(FALSE)
    ELSE IF file.kind \in {"unparseable", "null", "partial"} THEN Miss(TRUE)
    ELSE IF ~ToNumber(file).nan /\ t - ToNumber(file).n <= CacheTimeout
         THEN Hit(file)
         ELSE Miss(FALSE)

loadCacheIgnoresRefresh(file, opts, t) ==
    IF ~file.exists THEN Miss(FALSE)
    ELSE IF file.kind \in {"unparseable", "null", "partial"} THEN Miss(TRUE)
    ELSE IF ~ToNumber(file).nan /\ t - ToNumber(file).n < CacheTimeout
         THEN Hit(file)
         ELSE Miss(FALSE)

\* loadCache(): hit = FALSE is the null it returns.
\* JSON.parse throws on unparseable text and cacheData.timestamp throws on
\* null: the catch block logs and null is returned.  A comparison with NaN is
\* false.
loadCache(file, opts, t) ==
    IF ~file.exists \/ opts.refresh THEN Miss(FALSE)
    ELSE IF file.kind \in {"unparseable", "null", "partial"} THEN Miss(TRUE)
    ELSE IF ~ToNumber(file).nan /\ t - ToNumber(file).n < CacheTimeout
         THEN Hit(file)
         ELSE Miss(FALSE)

\* saveCache(data): the file after it.  scope records which path wrote the
\* entry; the file itself does not hold it.
saveCacheDropsLast(data, t, scope) ==
    [exists |-> TRUE, kind |-> "entry", timestamp |-> t,
     data |-> SubSeq(data, 1, Len(data) - 1), scope |-> scope]

\* The rows hold strings only, which JSON.stringify and JSON.parse preserve,
\* so the file is modelled by the value it spells.
saveCache(data, t, scope) ==
    [exists |-> TRUE, kind |-> "entry", timestamp |-> t, data |-> data,
     scope |-> scope]

FindValidatorFirst(data, v) == data

\* cachedData.find(v => v.Validator === options.validator), as a list
FindValidator(data, v) == SelectSeq(data, LAMBDA r : r.Validator = v)

\* a before b in results.sort((a, b) => parseFloat(b[...]) - parseFloat(a[...]))
SortsBefore(a, b) ==
    LET x == ParseFloat(a.TotalActiveStake)
        y == ParseFloat(b.TotalActiveStake)
    IN x[1] > y[1] \/ (x[1] = y[1] /\ x[2] > y[2])

RECURSIVE InsertRowBeforeTies(_, _)
InsertRowBeforeTies(sorted, r) ==
    IF sorted = <<>> THEN <<r>>
    ELSE IF ~SortsBefore(Head(sorted), r) THEN <<r>> \o sorted
    ELSE <<Head(sorted)>> \o InsertRowBeforeTies(Tail(sorted), r)

\* r inserted after every row that does not sort after it (the sort is stable)
RECURSIVE InsertRow(_, _)
InsertRow(sorted, r) ==
    IF sorted = <<>> THEN <<r>>
    ELSE IF SortsBefore(r, Head(sorted)) THEN <<r>> \o sorted
    ELSE <<Head(sorted)>> \o InsertRow(Tail(sorted), r)

RECURSIVE SortResults(_)
SortResults(rows) ==
    IF rows = <<>> THEN <<>>
    ELSE InsertRow(SortResults(SubSeq(rows, 1, Len(rows) - 1)), rows[Len(rows)])

StartWorkersFirstOnly(batch) == [v \in {batch[k] : k \in 1..1} |-> "prefs"]

\* validators.map(async ...): every callback runs to its first await
StartWorkers(batch) == [v \in {batch[k] : k \in 1..Len(batch)} |-> "prefs"]

BatchSettledAny(batch, w) ==
    \E k \in 1..Len(batch) : w[batch[k]] \in {"done", "failed"}

\* Promise.all resolves when every callback of the batch has returned its row
BatchSettled(batch, w) ==
    \A k \in 1..Len(batch) : w[batch[k]] \in {"done", "failed"}

BatchRowsDropsFailed(batch, w, map) ==
    LET kept == SelectSeq(batch, LAMBDA v : w[v] = "done")
    IN [k \in 1..Len(kept) |-> ProcessValidator(ChainRaw(kept[k], map))]

BatchRowsReversed(batch, w, map) ==
    [k \in 1..Len(batch) |->
        IF w[batch[Len(batch) + 1 - k]] = "done"
        THEN ProcessValidator(ChainRaw(batch[Len(batch) + 1 - k], map))
        ELSE FailedRow(batch[Len(batch) + 1 - k])]

\* what Promise.all resolves to: one row per validator, in the batch's order
BatchRows(batch, w, map) ==
    [k \in 1..Len(batch) |->
        IF w[batch[k]] = "done" THEN ProcessValidator(ChainRaw(batch[k], map))
        ELSE FailedRow(batch[k])]

BatchAtSizeOverlaps(list, start, size) ==
    SubSeq(list, start + 1,
           IF start + size + 1 < Len(list) THEN start + size + 1 ELSE Len(list))

\* list.slice(start, start + size)
BatchAtSize(list, start, size) ==
    SubSeq(list, start + 1,
           IF start + size < Len(list) THEN start + size ELSE Len(list))

BatchAtWhole(list, start) == SubSeq(list, start + 1, Len(list))

\* processValidators.slice(i, i + batchSize)
BatchAt(list, start) == BatchAtSize(list, start, BatchSize)

FinallySkipsDisconnect(p, a) == p

\* finally { if (api) await api.disconnect() }
FinallyDisconnect(p, a) == IF a # 0 THEN [p EXCEPT ![a] = "closed"] ELSE p

\* before the first run: no cache file, nothing connected
RunInit ==
    /\ now = 0
    /\ run = 0
    /\ cacheFile = NoFile
    /\ options = [validator |-> NoValidator, limit |-> NoLimit, refresh |-> FALSE]
    /\ pc = "idle"
    /\ endpoint = 1
    /\ provider = [e \in Endpoints |-> "none"]
    /\ behaviour = [e \in Endpoints |-> "unknown"]
    /\ attempts = <<>>
    /\ api = 0
    /\ nominatorsMap = EmptyMap
    /\ processValidators = <<>>
    /\ i = 0
    /\ worker = NoWorkers
    /\ results = <<>>
    /\ output = NoOutput
    /\ cachedData = Miss(FALSE)
    /\ validators = <<>>
    /\ sameScope = FALSE
    /\ cacheLog = "none"
    /\ exitCode = NoExit

Init == est = EstIdle /\ loop = LoopIdle /\ vote = VoteIdle /\ RunInit

\* time passes between two runs
Tick ==
    /\ pc = "idle" /\ run >= 1 /\ now < MaxNow
    /\ now' = now + 1
    /\ UNCHANGED <<est, vote, loop, sameScope, cacheLog, exitCode, run, cacheFile, options, pc, output>>
    /\ UNCHANGED runLocals

\* the run-local state with nothing connected
Unconnected ==
    /\ endpoint' = 1
    /\ provider' = [e \in Endpoints |-> "none"]
    /\ behaviour' = [e \in Endpoints |-> "unknown"]
    /\ attempts' = <<>>
    /\ api' = 0

NothingFetched ==
    /\ nominatorsMap' = EmptyMap
    /\ processValidators' = <<>>
    /\ i' = 0
    /\ worker' = NoWorkers
    /\ results' = <<>>
    /\ cachedData' = Miss(FALSE)
    /\ validators' = <<>>

\* the body of connectToNetwork's loop up to its await: new WsProvider(endpoint),
\* ApiPromise.create({ provider }); b is what the endpoint will do
Attempt(e, b) ==
    /\ endpoint' = e
    /\ provider' = [provider EXCEPT ![e] = "connecting"]
    /\ behaviour' = [behaviour EXCEPT ![e] = b]
    /\ attempts' = Append(attempts, e)

NextEndpointRetries(e) == e

NextEndpointSkips(e) == e + 2

\* for (const endpoint of DEFAULT_CONFIG.providers)
NextEndpoint(e) == e + 1

\* what is printed on a cache hit
CachedOutputOffByOne(data, opts) ==
    IF opts.validator # NoValidator
    THEN LET validatorData == FindValidator(data, opts.validator)
         IN IF validatorData # <<>>
            THEN [kind |-> "table", rows |-> <<validatorData[1]>>, source |-> "cache"]
            ELSE [kind |-> "notfound", rows |-> <<>>, source |-> "cache"]
    ELSE [kind |-> "table",
          rows |-> IF opts.limit # NoLimit THEN Slice(data, opts.limit - 1) ELSE data,
          source |-> "cache"]

CachedOutput(data, opts) ==
    IF opts.validator # NoValidator
    THEN LET validatorData == FindValidator(data, opts.validator)
         IN IF validatorData # <<>>
            THEN [kind |-> "table", rows |-> <<validatorData[1]>>, source |-> "cache"]
            ELSE [kind |-> "notfound", rows |-> <<>>, source |-> "cache"]
    ELSE [kind |-> "table",
          rows |-> IF opts.limit # NoLimit THEN Slice(data, opts.limit) ELSE data,
          source |-> "cache"]

ErrorOutput == [kind |-> "error", rows |-> <<>>, source |-> "none"]

\* What a cache hit prints when cachedData is a number: find and slice are
\* not functions of it, so with --validator or --limit a TypeError reaches the
\* outer catch; without them console.table prints the number.
BadDataOutput(opts) ==
    IF opts.validator # NoValidator \/ opts.limit # NoLimit
    THEN ErrorOutput
    ELSE [kind |-> "value", rows |-> <<>>, source |-> "cache"]

\* node validator-cli.js [--limit N] [--validator V] [--refresh]: getValidators
\* runs to its first await.  A cache hit is printed and the run is over (api is
\* undefined in the finally block); a miss starts the first connection attempt.
StartRun ==
    /\ pc = "idle" /\ run < MaxRuns
    /\ run' = run + 1
    /\ \E v \in {NoValidator, "V2", "V4"}, l \in {NoLimit, 2}, r \in BOOLEAN :
         LET opts == [validator |-> v, limit |-> l, refresh |-> r]
             loaded == loadCache(cacheFile, opts, now)
         IN /\ options' = opts
            /\ sameScope' = (run >= 1 /\ opts = options)
            /\ cachedData' = loaded
            \* if (cachedData): an array is truthy, the empty one too
            /\ IF loaded.hit
               THEN /\ output' = IF loaded.array
                                   THEN CachedOutput(loaded.data, opts)
                                   ELSE BadDataOutput(opts)
                    /\ pc' = "done"
                    /\ UNCHANGED <<endpoint, behaviour, attempts>>
                    /\ provider' = FinallyDisconnect(provider, api)
               ELSE /\ output' = NoOutput
                    /\ pc' = "creating"
                    /\ \E b \in Behaviours : Attempt(1, b)
    /\ UNCHANGED <<est, vote, loop, cacheLog, exitCode, now, cacheFile, api,
                   nominatorsMap, processValidators, i, worker, results,
                   validators>>

\* ApiPromise.create resolves: connectToNetwork returns the api, and
\* getValidators goes on to its next await
ConnResolve ==
    /\ pc = "creating" /\ behaviour[endpoint] = "ok"
    /\ provider' = [provider EXCEPT ![endpoint] = "open"]
    /\ api' = endpoint
    /\ pc' = IF options.validator # NoValidator THEN "era" ELSE "validators"
    /\ UNCHANGED <<est, vote, loop, sameScope, cacheLog, exitCode, now, run, cacheFile, options, endpoint, behaviour,
                   attempts, nominatorsMap, processValidators, i, worker,
                   results, output, cachedData, validators>>

\* ApiPromise.create rejects: the failure is logged and the loop goes on to the
\* next endpoint; after the last one connectToNetwork throws, getValidators
\* logs the error and its finally block finds api undefined
ConnReject ==
    /\ pc = "creating" /\ behaviour[endpoint] = "refuse"
    /\ IF NextEndpoint(endpoint) \in Endpoints
       THEN /\ \E b \in Behaviours :
                 /\ endpoint' = NextEndpoint(endpoint)
                 /\ provider' = [provider EXCEPT ![endpoint] = "failed",
                                                 ![NextEndpoint(endpoint)] = "connecting"]
                 /\ behaviour' = [behaviour EXCEPT ![NextEndpoint(endpoint)] = b]
                 /\ attempts' = Append(attempts, NextEndpoint(endpoint))
            /\ pc' = "creating"
            /\ output' = output
       ELSE /\ provider' = FinallyDisconnect(
                               [provider EXCEPT ![endpoint] = "failed"], api)
            /\ pc' = "done"
            /\ output' = ErrorOutput
            /\ UNCHANGED <<endpoint, behaviour, attempts>>
    /\ UNCHANGED <<est, vote, loop, sameScope, cacheLog, exitCode, now, run, cacheFile, options, api, nominatorsMap,
                   processValidators, i, worker, results, cachedData, validators>>

\* await api.query.session.validators()
FetchValidators ==
    /\ pc = "validators"
    /\ pc' = "era"
    /\ validators' \in {SessionValidators, <<>>}
    /\ UNCHANGED <<est, vote, loop, sameScope, cacheLog, exitCode, now, run, cacheFile, options, output,
                   endpoint, provider, behaviour, attempts, api, nominatorsMap,
                   processValidators, i, worker, results, cachedData>>

\* await api.query.staking.activeEra()
FetchEra ==
    /\ pc = "era"
    /\ pc' = "nominators"
    \* maxValidators = options.limit || DEFAULT_CONFIG.maxValidators
    /\ processValidators' =
         IF options.validator # NoValidator THEN <<options.validator>>
         ELSE Slice(validators,
                    IF options.limit # NoLimit THEN options.limit ELSE MaxValidators)
    /\ UNCHANGED <<est, vote, loop, sameScope, cacheLog, exitCode, now, run, cacheFile, options, output, endpoint, provider,
                   behaviour, attempts, api, nominatorsMap, i, worker, results,
                   cachedData, validators>>

\* the sort and the table that end the full-set path; saveCache(results) is
\* next
FinishFullSet(rows) ==
    LET sorted == SortResults(rows)
    IN /\ results' = sorted
       /\ output' = [kind |-> "table",
                     rows |-> IF options.limit # NoLimit
                              THEN Slice(sorted, options.limit) ELSE sorted,
                     source |-> "live"]
       /\ cacheFile' = cacheFile
       /\ pc' = "saving"

\* await api.query.staking.nominators.entries(); the map is built and the
\* first processValidatorsBatch starts its callbacks
FetchNominators ==
    /\ pc = "nominators"
    /\ nominatorsMap' = NominatorsMapOf(ChainNominators)
    /\ i' = 0
    /\ IF processValidators = <<>>
       THEN /\ FinishFullSet(<<>>)
            /\ worker' = worker
       ELSE /\ worker' = StartWorkers(BatchAt(processValidators, 0))
            /\ pc' = "batch"
            /\ UNCHANGED <<results, output, cacheFile>>
    /\ UNCHANGED <<est, vote, loop, sameScope, cacheLog, exitCode, now, run, options, endpoint, provider, behaviour,
                   attempts, api, processValidators, cachedData, validators>>

CatchSavesCache(p) == "saving"

\* where getValidators is after a catch block has logged the error thrown at
\* p: the function returns, which enters the finally block
CatchReturns(p) == "finally"

\* one of these three queries throws: the single-validator path logs it in its
\* own catch and returns, the full-set path logs it in the outer catch
QueryThrows ==
    /\ pc \in {"validators", "era", "nominators"}
    /\ pc' = CatchReturns(pc)
    /\ output' = ErrorOutput
    /\ UNCHANGED <<est, vote, loop, sameScope, cacheLog, exitCode, now, run, cacheFile, options>>
    /\ UNCHANGED runLocals

NextQuery(q) ==
    CASE q = "prefs" -> "account" [] q = "account" -> "exposure" [] q = "exposure" -> "done"

\* a callback's awaited query resolves: staking.validators, then
\* derive.staking.account, then staking.erasStakers, each awaited in turn
WorkerStep(v) ==
    /\ pc = "batch" /\ v \in DOMAIN worker
    /\ worker[v] \in {"prefs", "account", "exposure"}
    /\ worker' = [worker EXCEPT ![v] = NextQuery(worker[v])]
    /\ UNCHANGED <<est, vote, loop, sameScope, cacheLog, exitCode, now, run, cacheFile, options, pc, output, endpoint,
                   provider, behaviour, attempts, api, nominatorsMap,
                   processValidators, i, results, cachedData, validators>>

\* a callback's awaited query throws: its catch returns the zero row
WorkerThrows(v) ==
    /\ pc = "batch" /\ v \in DOMAIN worker /\ v \in FlakyValidators
    /\ worker[v] \in {"prefs", "account", "exposure"}
    /\ worker' = [worker EXCEPT ![v] = "failed"]
    /\ UNCHANGED <<est, vote, loop, sameScope, cacheLog, exitCode, now, run, cacheFile, options, pc, output, endpoint,
                   provider, behaviour, attempts, api, nominatorsMap,
                   processValidators, i, results, cachedData, validators>>

\* Promise.all resolves.  The single-validator path prints the row and goes
\* on to save it; the full-set path appends the rows and starts the next
\* batch, or sorts and prints after the last one and goes on to save.
BatchJoin ==
    /\ pc = "batch"
    /\ BatchSettled(BatchAt(processValidators, i), worker)
    /\ LET rows == BatchRows(BatchAt(processValidators, i), worker, nominatorsMap)
       IN IF options.validator # NoValidator
          THEN /\ results' = rows
               /\ output' = [kind |-> "table", rows |-> rows, source |-> "live"]
               /\ cacheFile' = cacheFile
               /\ pc' = "saving"
               /\ UNCHANGED <<i, worker>>
          ELSE /\ i' = i + BatchSize
               /\ IF i + BatchSize < Len(processValidators)
                  THEN /\ results' = results \o rows
                       /\ worker' = StartWorkers(BatchAt(processValidators,
                                                          i + BatchSize)) @@ worker
                       /\ UNCHANGED <<pc, output, cacheFile>>
                  ELSE /\ FinishFullSet(results \o rows)
                       /\ worker' = worker
    /\ UNCHANGED <<est, vote, loop, sameScope, cacheLog, exitCode, now, run, options, endpoint, provider, behaviour,
                   attempts, api, nominatorsMap, processValidators, cachedData,
                   validators>>

\* the scope of the entry the run saves
SavedScope == IF options.validator # NoValidator THEN "single" ELSE "full"

saveCacheRethrows(out) == [kind |-> "error", rows |-> <<>>, source |-> "none"]

\* saveCache's catch logs the error and returns: what was printed stays
saveCacheCatch(out) == out

\* the run-local state an action of saveCache leaves alone
saveFrame == <<est, loop, vote, sameScope, exitCode, now, run, options, endpoint,
               provider, behaviour, attempts, api, nominatorsMap,
               processValidators, i, worker, results, cachedData, validators>>

\* fs.writeFileSync opens the cache file, truncating it
WriteBegin ==
    /\ pc = "saving"
    /\ cacheFile' = PartialFile
    /\ pc' = "writing"
    /\ UNCHANGED <<output, cacheLog>>
    /\ UNCHANGED saveFrame

\* fs.writeFileSync returns: the whole text is in the file
WriteEnd ==
    /\ pc = "writing"
    /\ cacheFile' = saveCache(results, now, SavedScope)
    /\ cacheLog' = "saved"
    /\ pc' = "finally"
    /\ UNCHANGED output
    /\ UNCHANGED saveFrame

\* fs.writeFileSync throws, before it has opened the file or while it writes
WriteThrows ==
    /\ pc \in {"saving", "writing"}
    /\ cacheLog' = "error"
    /\ output' = saveCacheCatch(output)
    /\ pc' = "finally"
    /\ UNCHANGED cacheFile
    /\ UNCHANGED saveFrame

\* the process is killed while fs.writeFileSync is writing
Crash ==
    /\ pc = "writing"
    /\ pc' = "idle"
    /\ exitCode' = NoExit
    /\ cacheLog' = "none"
    /\ Unconnected
    /\ NothingFetched
    /\ UNCHANGED <<est, vote, loop, sameScope, now, run, cacheFile, options, output>>

\* finally: await api.disconnect()
Finally ==
    /\ pc = "finally"
    /\ provider' = FinallyDisconnect(provider, api)
    /\ pc' = "done"
    /\ UNCHANGED <<est, vote, loop, sameScope, cacheLog, exitCode, now, run, cacheFile, options, output, endpoint,
                   behaviour, attempts, api, nominatorsMap, processValidators,
                   i, worker, results, cachedData, validators>>

\* The process ends; what it printed stays on the terminal.  getValidators
\* has returned normally whatever happened: nothing sets process.exitCode,
\* calls process.exit or lets a rejection escape.
Exit ==
    /\ pc = "done"
    /\ pc' = "idle"
    /\ exitCode' = 0
    /\ cacheLog' = "none"
    /\ Unconnected
    /\ NothingFetched
    /\ UNCHANGED <<est, vote, loop, sameScope, now, run, cacheFile, options, output>>

\* between two runs something other than saveCache rewrites the cache file
Corrupt(kind) ==
    /\ pc = "idle" /\ cacheFile.kind = "entry"
    /\ cacheFile' = [cacheFile EXCEPT !.kind = kind]
    /\ UNCHANGED <<est, vote, loop, sameScope, cacheLog, exitCode, now, run, options, pc, output>>
    /\ UNCHANGED runLocals

Next ==
    \/ Tick
    \/ StartRun
    \/ \E kind \in CorruptKinds : Corrupt(kind)
    \/ ConnResolve
    \/ ConnReject
    \/ FetchValidators
    \/ FetchEra
    \/ FetchNominators
    \/ QueryThrows
    \/ \E v \in DOMAIN worker : WorkerStep(v)
    \/ \E v \in DOMAIN worker : WorkerThrows(v)
    \/ BatchJoin
    \/ WriteBegin
    \/ WriteEnd
    \/ WriteThrows
    \/ Crash
    \/ Finally
    \/ Exit

Spec == Init /\ [][Next]_vars


(***************************************************************************)
(* The estimate on its own: the inputs of one processValidatorsBatch       *)
(* callback are drawn, and the callback of validator-cli.js or of part_000 *)
(* computes its row.                                                       *)
(***************************************************************************)
\* the values of exposure.others (positive, as on chain) and of the ledger
ExposureValues == {3, 10000000}
SelfBondValues == {0, 1000000}
\* 0%, 4.99%, 5%, 15%, 15.01%, 100%
CommissionValues == {0, 49900000, 50000000, 150000000, 150100000, 1000000000}
EstValidators == {TestValidator, "V1"}
OthersLists == UNION {[1..n -> ExposureValues] : n \in 0..MaxOthers}
\* per registry record: undecodable, nominating the validator, nominating another
RecordKinds == {"malformed", "targets", "other"}

\* the registry in which the records nominate validator v as kinds says
RegistryOf(kinds, v) ==
    [n \in 1..MaxNominators |->
        [nominator |-> n,
         decodes |-> kinds[n] # "malformed",
         targets |-> IF kinds[n] = "targets" THEN <<v>> ELSE <<"Vo">>]]

\* the raw data of the drawn inputs, for validator v
RawOf(e, v) ==
    [validator |-> v, commission |-> e.commission, selfBond |-> e.selfBond,
     others |-> e.others,
     nominatorsMap |-> NominatorsMapOf(RegistryOf(e.kinds, v))]

EstInit ==
    /\ \E v \in EstValidators, c \in CommissionValues, sb \in SelfBondValues,
          o \in OthersLists, k \in [1..MaxNominators -> RecordKinds] :
         est = [pc |-> "input", validator |-> v, commission |-> c,
                selfBond |-> sb, others |-> o, kinds |-> k]
    /\ loop = LoopIdle
    /\ vote = VoteIdle
    /\ RunInit

\* the callback of validator-cli.js, with its locals
EstimateCli ==
    /\ est.pc = "input"
    /\ LET raw == RawOf(est, est.validator)
       IN est' = [pc |-> "cli", validator |-> est.validator,
                  commission |-> est.commission, selfBond |-> est.selfBond,
                  others |-> est.others, kinds |-> est.kinds,
                  row |-> ProcessValidator(raw),
                  inactiveNominatorCount |-> InactiveNominatorCount(raw),
                  estimated |-> EstimatesInactive(raw),
                  inactiveMultiplier |-> InactiveMultiplier(raw.commission),
                  tierMultiplier |-> TRUE]
    /\ UNCHANGED <<loop, vote, sameScope, cacheLog, exitCode, now, run, cacheFile, options, pc, output>>
    /\ UNCHANGED runLocals

\* the callback of part_000
EstimateData ==
    /\ est.pc = "input"
    /\ LET raw == RawOf(est, est.validator)
       IN est' = [pc |-> "data", validator |-> est.validator,
                  commission |-> est.commission, selfBond |-> est.selfBond,
                  others |-> est.others, kinds |-> est.kinds,
                  row |-> ProcessValidatorData(raw),
                  inactiveNominatorCount |-> InactiveNominatorCount(raw),
                  estimated |-> EstimatesInactive(raw),
                  inactiveMultiplier |-> InactiveMultiplier(raw.commission),
                  tierMultiplier |-> UsesTierMultiplierData(raw)]
    /\ UNCHANGED <<loop, vote, sameScope, cacheLog, exitCode, now, run, cacheFile, options, pc, output>>
    /\ UNCHANGED runLocals

EstNext == EstimateCli \/ EstimateData

EstSpec == EstInit /\ [][EstNext]_vars

\* the runs with every step that can be taken eventually taken: node runs
\* every continuation whose promise has settled
(***************************************************************************)
(* The sums of the row at planck resolution.  Here selfBond and the values *)
(* of others are in planck and small, so that amounts below the printed    *)
(* resolution occur; a quotient of the code is carried as the fraction     *)
(* <<num, den>> of planck, and toFixed(4) rounds it to printed units.      *)
(***************************************************************************)
\* planck per printed unit: 1e10 / 10^4
PlanckPerUnit == 1000000
\* 0.00004 DOT and 0.00014 DOT
PlanckValues == {400000, 1400000}
PlanckCommissions == {0, 50000000, 1000000000}
PlanckOthers ==
    {<<>>} \cup {<<a>> : a \in PlanckValues}
           \cup {<<a, b>> : a \in PlanckValues, b \in PlanckValues}

\* (num / den / 1e10).toFixed(4)
ToFixed4(num, den) == Fixed(RoundDiv(num, den * PlanckPerUnit), 4)

\* inactiveStake = avgActiveStakePerNominator * inactiveMultiplier
\*                 * inactiveNominatorCount, or 0
InactiveStake(raw) ==
    IF EstimatesInactive(raw)
    THEN <<ActiveStake(raw) * InactiveMultiplier(raw.commission)
               * InactiveNominatorCount(raw),
           ActiveNominatorCount(raw) * MultiplierDen>>
    ELSE <<0, 1>>

TotalNominationOfPrinted(raw) ==
    AddFixed4(ToFixed4(ActiveStake(raw), 1),
              ToFixed4(InactiveStake(raw)[1], InactiveStake(raw)[2]))

\* totalNomination = activeStake + inactiveStake; totalNomination.toFixed(4)
TotalNomination(raw) ==
    ToFixed4(ActiveStake(raw) * InactiveStake(raw)[2] + InactiveStake(raw)[1],
             InactiveStake(raw)[2])

\* totalActiveStake = ownStake + activeStake; totalActiveStake.toFixed(4)
TotalActiveStake(raw) == ToFixed4(raw.selfBond + ActiveStake(raw), 1)

\* the stake columns of the row returned for raw
PlanckRow(raw) ==
    [Validator |-> raw.validator,
     SelfBond |-> ToFixed4(raw.selfBond, 1),
     ActiveNomination |-> ToFixed4(ActiveStake(raw), 1),
     InactiveNomination |-> ToFixed4(InactiveStake(raw)[1], InactiveStake(raw)[2]),
     TotalNomination |-> TotalNomination(raw),
     TotalActiveStake |-> TotalActiveStake(raw)]

PlanckInit ==
    /\ \E c \in PlanckCommissions, sb \in PlanckValues \cup {0},
          o \in PlanckOthers, k \in [1..MaxNominators -> RecordKinds] :
         est = [pc |-> "planck-input", validator |-> "V1", commission |-> c,
                selfBond |-> sb, others |-> o, kinds |-> k]
    /\ loop = LoopIdle
    /\ vote = VoteIdle
    /\ RunInit

\* the callback of validator-cli.js on amounts in planck
EstimatePlanck ==
    /\ est.pc = "planck-input"
    /\ LET raw == RawOf(est, est.validator)
       IN est' = [pc |-> "planck", validator |-> est.validator,
                  commission |-> est.commission, selfBond |-> est.selfBond,
                  others |-> est.others, kinds |-> est.kinds,
                  inactiveStake |-> InactiveStake(raw),
                  row |-> PlanckRow(raw)]
    /\ UNCHANGED <<loop, vote, sameScope, cacheLog, exitCode, now, run, cacheFile, options, pc, output>>
    /\ UNCHANGED runLocals

\* the row is printed
PlanckPrint ==
    /\ est.pc = "planck"
    /\ est' = [est EXCEPT !.pc = "printed"]
    /\ UNCHANGED <<loop, vote, sameScope, cacheLog, exitCode, now, run, cacheFile, options, pc, output>>
    /\ UNCHANGED runLocals

PlanckNext == EstimatePlanck \/ PlanckPrint

PlanckSpec == PlanckInit /\ [][PlanckNext]_vars

(***************************************************************************)
(* The batch loop of getValidators on drawn lists:                         *)
(*   for (let i = 0; i < list.length; i += batchSize)                      *)
(*       batch = list.slice(i, i + batchSize)                              *)
(* with the lists 1..n and, beside small batch sizes, the configured one.  *)
(***************************************************************************)
MaxListLen == 12
DefaultBatchSize == 25
LoopSizes == {1, 2, 3, DefaultBatchSize}
\* the short lists, and the list five longer than one configured batch
LoopLengths == (0..MaxListLen) \cup {DefaultBatchSize + 5}

LoopInit ==
    /\ \E n \in LoopLengths, size \in LoopSizes :
         loop = [pc |-> "loop", list |-> [k \in 1..n |-> k], size |-> size,
                 i |-> 0, chunks |-> <<>>]
    /\ est = EstIdle
    /\ vote = VoteIdle
    /\ RunInit

\* one turn of the loop
LoopStep ==
    /\ loop.pc = "loop" /\ loop.i < Len(loop.list)
    /\ loop' = [loop EXCEPT
                  !.chunks = Append(@, BatchAtSize(loop.list, loop.i, loop.size)),
                  !.i = @ + loop.size]
    /\ UNCHANGED <<est, vote, sameScope, cacheLog, exitCode, now, run, cacheFile, options, pc, output>>
    /\ UNCHANGED runLocals

\* the loop's test fails
LoopExit ==
    /\ loop.pc = "loop" /\ ~(loop.i < Len(loop.list))
    /\ loop' = [loop EXCEPT !.pc = "done"]
    /\ UNCHANGED <<est, vote, sameScope, cacheLog, exitCode, now, run, cacheFile, options, pc, output>>
    /\ UNCHANGED runLocals

LoopNext == LoopStep \/ LoopExit

LoopSpec == LoopInit /\ [][LoopNext]_vars


(***************************************************************************)
(* The voting workflows: defaultVoting and customVoting of                 *)
(* src/voteCLIgen.js and main of src/unnamed/part_001, from the final      *)
(* confirmation prompt on.  The plan is accounts x referendums (one        *)
(* referendum in defaultVoting); a vote is [account, referendum] by its    *)
(* indexes in the plan.  vote.log holds the transactions handed to         *)
(* signAndSend, in order, each with the last status the chain reported.    *)
(***************************************************************************)
MaxAccounts == 2
MaxReferendums == 2

Workflows == {"defaultVoting", "customVoting", "main"}
\* api.tx.democracy?.vote, else api.tx.convictionVoting?.vote, else neither
Pallets == {"democracy", "convictionVoting", "none"}
\* what the user may type at the prompt
Answers == {"y", "Y", "n", "N", "yes", ""}

\* String.prototype.toLowerCase on the answers
ToLowerCase(str) ==
    CASE str = "Y" -> "y"
      [] str = "N" -> "n"
      [] OTHER -> str

ConfirmedUnlessNo(answer) == ToLowerCase(answer) # "n"

\* the negation of the test that cancels: confirm.toLowerCase() !== "y"
Confirmed(answer) == ToLowerCase(answer) = "y"

\* the statuses the status callback can be given after status s; "sent" is a
\* transaction handed to signAndSend of which no status has come yet
StatusAfter(s) ==
    CASE s = "sent"      -> {"ready", "invalid"}
      [] s = "ready"     -> {"broadcast", "inBlock", "dropped", "invalid", "usurped"}
      [] s = "broadcast" -> {"inBlock", "dropped", "invalid", "usurped"}
      [] s = "inBlock"   -> {"finalized", "finalityTimeout"}
      [] OTHER           -> {}

ResolvesInBlock(s) == s \in {"inBlock", "finalized"}

\* if (status.isFinalized) resolve()
Resolves(s) == s = "finalized"

\* the plan in the order of the nested loops: accounts outside, referendums
\* inside
VoteOrder(accounts, referendums) ==
    [k \in 1..(accounts * referendums) |->
        [account |-> ((k - 1) \div referendums) + 1,
         referendum |-> ((k - 1) % referendums) + 1]]

\* the next turn of the nested loops
Advance(v) ==
    IF v.r < v.referendums THEN [v EXCEPT !.r = @ + 1]
    ELSE [v EXCEPT !.a = @ + 1, !.r = 1]

voteFrame == <<est, loop, sameScope, cacheLog, exitCode, now, run, cacheFile,
               options, pc, output>>

VoteInit ==
    /\ \E w \in Workflows, na \in 1..MaxAccounts, nr \in 1..MaxReferendums,
          p \in Pallets :
         /\ w = "defaultVoting" => nr = 1
         /\ vote = [pc |-> "confirm", workflow |-> w, accounts |-> na,
                    referendums |-> nr, pallet |-> p, answer |-> "",
                    a |-> 1, r |-> 1, log |-> <<>>]
    /\ est = EstIdle
    /\ loop = LoopIdle
    /\ RunInit

\* the answer to "Do you confirm broadcasting these votes? (y/n): "
Confirm ==
    /\ vote.pc = "confirm"
    /\ \E answer \in Answers :
         vote' = [vote EXCEPT
                    !.answer = answer,
                    !.pc = IF Confirmed(answer) THEN "loop" ELSE "cancelled"]
    /\ UNCHANGED voteFrame
    /\ UNCHANGED runLocals

\* one turn without a voting method: console.error and continue
VoteSkip ==
    /\ vote.pc = "loop" /\ vote.a <= vote.accounts
    /\ vote.pallet = "none"
    /\ vote' = Advance(vote)
    /\ UNCHANGED voteFrame
    /\ UNCHANGED runLocals

\* proxyVote.signAndSend(proxyAccount, callback) inside the awaited promise
VoteSend ==
    /\ vote.pc = "loop" /\ vote.a <= vote.accounts
    /\ vote.pallet # "none"
    /\ vote' = [vote EXCEPT
                  !.log = Append(@, [account |-> vote.a, referendum |-> vote.r,
                                     status |-> "sent"]),
                  !.pc = "await"]
    /\ UNCHANGED voteFrame
    /\ UNCHANGED runLocals

\* the status callback: it resolves the awaited promise on a finalized
\* status and on no other
VoteStatus ==
    /\ vote.pc = "await"
    /\ \E s \in StatusAfter(vote.log[Len(vote.log)].status) :
         vote' = [vote EXCEPT
                    !.log[Len(vote.log)].status = s,
                    !.pc = IF Resolves(s) THEN "delay" ELSE "await"]
    /\ UNCHANGED voteFrame
    /\ UNCHANGED runLocals

\* the promise signAndSend returned rejects (the node refuses the
\* transaction): nothing handles it and the awaited promise never resolves;
\* the runtime either only warns of the unhandled rejection or ends the
\* process
VoteSendRejects ==
    /\ vote.pc = "await" /\ vote.log[Len(vote.log)].status = "sent"
    /\ \E end \in {"await", "crashed"} :
         vote' = [vote EXCEPT !.log[Len(vote.log)].status = "rejected",
                              !.pc = end]
    /\ UNCHANGED voteFrame
    /\ UNCHANGED runLocals

\* the timer between two votes
VoteDelay ==
    /\ vote.pc = "delay"
    /\ vote' = [Advance(vote) EXCEPT !.pc = "loop"]
    /\ UNCHANGED voteFrame
    /\ UNCHANGED runLocals

\* the loops are over: "All votes submitted."
VoteDone ==
    /\ vote.pc = "loop" /\ vote.a > vote.accounts
    /\ vote' = [vote EXCEPT !.pc = "submitted"]
    /\ UNCHANGED voteFrame
    /\ UNCHANGED runLocals

VoteNext ==
    \/ Confirm \/ VoteSkip \/ VoteSend \/ VoteStatus \/ VoteSendRejects
    \/ VoteDelay \/ VoteDone

VoteSpec == VoteInit /\ [][VoteNext]_vars

\* the event loop runs every callback that is due
VoteFairSpec == VoteSpec /\ WF_vars(VoteNext)


FairSpec == Spec /\ WF_vars(Next)


(***************************************************************************)
(* Properties.                                                             *)
(***************************************************************************)

\* C1: a run without a single-identity filter is never answered from a cache
\* entry that a single-identity run wrote.
C1_FullSetNeverFromSingleEntry ==
    ~(/\ pc = "done"
      /\ options.validator = NoValidator
      /\ output.source = "cache"
      /\ cacheFile.scope = "single")

\* C2: the endpoints are attempted in list order, each at most once; an
\* endpoint is attempted only after every earlier attempt has failed, and none
\* is attempted after one has succeeded.
C2_AttemptsInListOrder ==
    /\ \A k \in 1..Len(attempts) : attempts[k] = k
    /\ \A k \in 1..(Len(attempts) - 1) : provider[attempts[k]] = "failed"
    /\ \A e \in 1..NumProviders :
         provider[e] \in {"open", "closed"} => e = attempts[Len(attempts)]

C2_Witness ==
    /\ attempts = <<1, 2, 3>>
    /\ provider[1] = "failed" /\ provider[2] = "failed" /\ provider[3] = "open"

\* connectToNetwork threw: the run, not served from the cache, is over on the
\* outer catch without an api
ConnectThrew == pc = "done" /\ api = 0 /\ output = ErrorOutput /\ ~cachedData.hit

\* C3: connectToNetwork throws exactly when every endpoint has been attempted
\* and has failed; a returned session is to the first endpoint in list order
\* that succeeds when reached, every endpoint before it having failed.
C3_ThrowsIffAllFailed ==
    /\ ConnectThrew <=> (\A e \in 1..NumProviders : provider[e] = "failed")
    /\ api # 0 =>
         /\ behaviour[api] = "ok"
         /\ \A e \in 1..(api - 1) :
              behaviour[e] = "refuse" /\ provider[e] = "failed"

C3_Witness ==
    /\ ConnectThrew
    /\ attempts = <<1, 2, 3>>
    /\ \A e \in 1..NumProviders : behaviour[e] = "refuse"

\* C4: every connection attempt comes to an end, so connectToNetwork
\* terminates whatever the endpoint does.
C4_ConnectTerminates == (pc = "creating") ~> (pc # "creating")

\* C5: a run that obtained a session has disconnected it when it ends,
\* whichever way it ends.
C5_SessionDisconnected ==
    pc = "done" =>
        /\ api # 0 => provider[api] = "closed"
        /\ \A e \in 1..NumProviders : provider[e] # "open"

\* the single-identity path ended in its own catch, after connecting
C5_Witness ==
    /\ pc = "done" /\ api # 0
    /\ options.validator # NoValidator
    /\ output = ErrorOutput
    /\ provider[api] = "closed"

Estimated == est.pc \in {"cli", "data"}

\* C6: in every row the active nominator count is at most the total count.
C6_ActiveAtMostTotal ==
    Estimated => est.row.Nominators[1] <= est.row.Nominators[2]

\* C7: the inactive nominator count is never negative, and the inactive stake
\* is 0 whenever the active count or the inactive count is 0.
C7_InactiveStakeZero ==
    Estimated =>
        /\ est.inactiveNominatorCount >= 0
        /\ (Len(est.others) = 0 \/ est.inactiveNominatorCount = 0)
              => est.row.InactiveNomination = [w |-> 0, f |-> 0, d |-> 4]

\* no active nominator although three records nominate the validator
C7_Witness ==
    /\ est.pc = "cli"
    /\ est.others = <<>>
    /\ est.row.Nominators = <<0, 3>>
    /\ est.row.InactiveNomination = [w |-> 0, f |-> 0, d |-> 4]

\* the inactive stake printed for multiplier m tenths
InactiveWith(m) ==
    Fixed(RoundDiv(SumValues(est.others) * m * est.inactiveNominatorCount,
                   Len(est.others) * 10), 4)

\* C8: below 5% the multiplier is 0.6, above 15% it is 0.8, and from 5% to 15%
\* inclusive it is 0.7; the inactive stake is computed with it.
C8_TierBoundaries ==
    est.pc = "cli" /\ est.estimated =>
        /\ est.commission < 50000000 => est.inactiveMultiplier = 6
        /\ est.commission > 150000000 => est.inactiveMultiplier = 8
        /\ (est.commission >= 50000000 /\ est.commission <= 150000000)
              => est.inactiveMultiplier = 7
        /\ est.commission = 49900000 => est.row.InactiveNomination = InactiveWith(6)
        /\ est.commission = 50000000 => est.row.InactiveNomination = InactiveWith(7)
        /\ est.commission = 150000000 => est.row.InactiveNomination = InactiveWith(7)
        /\ est.commission = 150100000 => est.row.InactiveNomination = InactiveWith(8)

\* commission exactly 15%, one active and two inactive nominators
C8_Witness ==
    /\ est.pc = "cli" /\ est.estimated
    /\ est.commission = 150000000
    /\ est.inactiveMultiplier = 7
    /\ est.row.Nominators = <<1, 3>>

\* one active nominator of 1000 DOT, self bond 100 DOT, three nominating
\* records, commission 5%
C9_Scenario ==
    /\ est.pc = "cli"
    /\ est.others = <<10000000>>
    /\ est.selfBond = 1000000
    /\ est.commission = 50000000
    /\ \A n \in 1..3 : est.kinds[n] = "targets"
    /\ \A n \in 4..MaxNominators : est.kinds[n] # "targets"

\* C9: the scenario's row is 1000.0000 active, 1/3 nominators, 2 inactive
\* nominators, 1400.0000 inactive, 2400.0000 total, 1100.0000 total active.
C9_ScenarioRow ==
    C9_Scenario =>
        /\ est.row.ActiveNomination = [w |-> 1000, f |-> 0, d |-> 4]
        /\ est.row.Nominators = <<1, 3>>
        /\ est.inactiveNominatorCount = 2
        /\ est.row.InactiveNomination = [w |-> 1400, f |-> 0, d |-> 4]
        /\ est.row.TotalNomination = [w |-> 2400, f |-> 0, d |-> 4]
        /\ est.row.TotalActiveStake = [w |-> 1100, f |-> 0, d |-> 4]

C9_Witness == C9_Scenario /\ est.validator = "V1"

StakeFigures(r) ==
    <<r.SelfBond, r.ActiveNomination, r.InactiveNomination, r.TotalNomination,
      r.TotalActiveStake, r.Commission, r.Nominators>>

\* the row the same callback computes from the same raw data for validator v
RowFor(v) ==
    IF est.pc = "cli" THEN ProcessValidator(RawOf(est, v))
    ELSE ProcessValidatorData(RawOf(est, v))

\* C10: the stake figures depend on the raw data only, not on the validator's
\* identity, and the multiplier is always the commission tier's.
C10_EstimateIsPure ==
    Estimated =>
        /\ \A v \in EstValidators : StakeFigures(est.row) = StakeFigures(RowFor(v))
        /\ est.tierMultiplier

\* the rows of a finished live run
LiveRows == pc \in {"finally", "done"} /\ output.kind = "table" /\ output.source = "live"

RowsOf(v) == SelectSeq(results, LAMBDA r : r.Validator = v)

IsZeroRow(r) ==
    /\ \A f \in {"SelfBond", "ActiveNomination", "InactiveNomination",
                 "TotalNomination", "TotalActiveStake", "Commission"} :
         r[f] = ZeroLiteral /\ ParseFloat(r[f]) = <<0, 0>>
    /\ r.Nominators = <<0, 0>>

\* C11: when the queries of a validator fail, the run still has exactly one
\* row per requested validator; the row of the failing validator is all zeros
\* with 0/0 nominators, every other validator has its normal row, and the
\* batches after the failure are processed.
C11_FailureIsolated ==
    LiveRows =>
        /\ Len(results) = Len(processValidators)
        /\ \A k \in 1..Len(processValidators) :
             LET v == processValidators[k]
             IN /\ v \in DOMAIN worker
                /\ Len(RowsOf(v)) = 1
                /\ worker[v] = "failed" =>
                     RowsOf(v)[1] = FailedRow(v) /\ IsZeroRow(RowsOf(v)[1])
                /\ worker[v] # "failed" =>
                     /\ worker[v] = "done"
                     /\ RowsOf(v)[1] = ProcessValidator(ChainRaw(v, nominatorsMap))

\* V2 failed in the first batch; V1 of that batch and V3 of the next have rows
C11_Witness ==
    /\ LiveRows /\ options.validator = NoValidator
    /\ processValidators = <<"V1", "V2", "V3">>
    /\ worker["V2"] = "failed" /\ worker["V1"] = "done" /\ worker["V3"] = "done"
    /\ Len(results) = 3

RECURSIVE Flatten(_)
Flatten(chunks) ==
    IF chunks = <<>> THEN <<>> ELSE Head(chunks) \o Flatten(Tail(chunks))

\* C12: the chunks of the batch loop are consecutive and cover the list once,
\* in order; each has at most batchSize members and each but the last exactly
\* batchSize; a list of 30 with batchSize 25 gives chunks of 25 and 5.
C12_ChunksPartition ==
    loop.pc \in {"loop", "done"} =>
        /\ Flatten(loop.chunks)
             = SubSeq(loop.list, 1,
                      IF loop.i < Len(loop.list) THEN loop.i ELSE Len(loop.list))
        /\ \A k \in 1..Len(loop.chunks) :
             /\ Len(loop.chunks[k]) \in 1..loop.size
             /\ k < Len(loop.chunks) => Len(loop.chunks[k]) = loop.size
        /\ loop.pc = "done" =>
             /\ Flatten(loop.chunks) = loop.list
             /\ (Len(loop.list) = 30 /\ loop.size = 25) =>
                  /\ Len(loop.chunks) = 2
                  /\ Len(loop.chunks[1]) = 25 /\ Len(loop.chunks[2]) = 5

C12_Witness ==
    /\ loop.pc = "done"
    /\ Len(loop.list) = 30 /\ loop.size = 25
    /\ Len(loop.chunks) = 2

\* the chunk of the k-th validator
ChunkOf(k) == (k - 1) \div BatchSize

Settled(v) == v \in DOMAIN worker /\ worker[v] \in {"done", "failed"}

\* C13: no query of a validator of a later chunk is issued until every
\* validator of the chunks before it has its row, normal or zeroed.
C13_ChunksSequential ==
    \A a, b \in 1..Len(processValidators) :
        (ChunkOf(a) < ChunkOf(b) /\ processValidators[b] \in DOMAIN worker)
            => Settled(processValidators[a])

\* a query of the second chunk in flight, after a failure in the first
C13_Witness ==
    /\ pc = "batch" /\ i = BatchSize
    /\ processValidators = <<"V1", "V2", "V3">>
    /\ worker["V2"] = "failed" /\ worker["V1"] = "done"
    /\ worker["V3"] = "account"

\* the queries a callback has issued and those that have resolved, by the
\* query it awaits
Issued(q) == CASE q = "prefs" -> 1 [] q = "account" -> 2 [] OTHER -> 3
Resolved(q) == CASE q = "prefs" -> 0 [] q = "account" -> 1
                 [] q = "exposure" -> 2 [] OTHER -> 3

InFlight(v) == v \in DOMAIN worker /\ worker[v] \in {"prefs", "account", "exposure"}

\* C14 as stated: the three queries of a validator are all in flight before
\* any of them has resolved, and the queries of all members of the chunk are
\* in flight together.
C14_QueriesAllInFlight ==
    /\ \A v \in DOMAIN worker :
         (InFlight(v) /\ Resolved(worker[v]) > 0) => Issued(worker[v]) = 3
    /\ pc = "batch" =>
         \A k \in 1..Len(BatchAt(processValidators, i)) :
            BatchAt(processValidators, i)[k] \in DOMAIN worker

\* C14 amended: the callbacks of all members of a chunk are started together,
\* so the first query of every member is issued before any query of the chunk
\* resolves; the three queries of one validator are issued one after another,
\* each when the one before it has resolved.
C14_MembersTogetherQueriesInTurn ==
    /\ \A v \in DOMAIN worker :
         InFlight(v) => Issued(worker[v]) = Resolved(worker[v]) + 1
    /\ pc = "batch" =>
         \A k \in 1..Len(BatchAt(processValidators, i)) :
            BatchAt(processValidators, i)[k] \in DOMAIN worker

\* V1 awaits its third query while V2 still awaits its first
C14_Witness ==
    /\ pc = "batch" /\ i = 0
    /\ BatchAt(processValidators, i) = <<"V1", "V2">>
    /\ worker["V1"] = "exposure" /\ worker["V2"] = "prefs"

\* the registry of the drawn inputs and its records that decode
EstRegistry == RegistryOf(est.kinds, est.validator)
EstDecoding == SelectSeq(EstRegistry, LAMBDA rec : rec.decodes)

\* C15: a record whose target list does not decode is skipped and the build
\* goes on: every other record is in the map, and the validator's targeting
\* count is what it is without the malformed records.
C15_MalformedSkipped ==
    Estimated =>
        LET map == NominatorsMapOf(EstRegistry)
        IN /\ DOMAIN map = {n \in 1..MaxNominators : est.kinds[n] # "malformed"}
           /\ \A n \in DOMAIN map : map[n] = EstRegistry[n].targets
           /\ map = NominatorsMapOf(EstDecoding)
           /\ est.row.Nominators[2]
                = Cardinality({n \in 1..MaxNominators : est.kinds[n] = "targets"})
           /\ est.row.Nominators[2]
                = Cardinality(TargetingNominators(NominatorsMapOf(EstDecoding),
                                                  est.validator))

\* a malformed record before one that nominates the validator
C15_Witness ==
    /\ est.pc = "cli"
    /\ est.kinds[1] = "malformed" /\ est.kinds[2] = "targets"
    /\ est.row.Nominators[2] >= 1

\* the cache file is as loadCache found it: the run has not saved
FileAsLoaded == pc # "idle" /\ output.source # "live"

\* C16: loadCache returns the stored list only when the file exists, parses
\* and now - timestamp < TTL; it returns a miss when the file is absent or
\* now - timestamp >= TTL.
C16_HitOnlyWithinTTL ==
    FileAsLoaded =>
        /\ cachedData.hit =>
             /\ cacheFile.exists
             /\ cacheFile.kind \notin {"absent", "unparseable"}
             /\ now - ToNumber(cacheFile).n < CacheTimeout
             /\ cachedData.data = cacheFile.data
        /\ ~cacheFile.exists => ~cachedData.hit
        /\ (~ToNumber(cacheFile).nan
              /\ now - ToNumber(cacheFile).n >= CacheTimeout) => ~cachedData.hit

\* an entry read exactly TTL after it was written
C16_Witness ==
    /\ pc = "creating" /\ ~options.refresh
    /\ cacheFile.kind = "entry"
    /\ now - cacheFile.timestamp = CacheTimeout
    /\ ~cachedData.hit

\* C17: with --refresh the run is never served from the cache, whatever the
\* file holds: it goes to the network, and the results it fetches overwrite
\* the cache entry.
C17_RefreshBypassesCache ==
    /\ (options.refresh /\ pc # "idle") =>
         /\ ~cachedData.hit
         /\ output.source # "cache"
         /\ attempts # <<>>
    /\ (options.refresh /\ LiveRows /\ cacheLog = "saved") =>
         cacheFile = [exists |-> TRUE, kind |-> "entry", timestamp |-> now,
                      data |-> results, scope |-> SavedScope]

\* a refreshing run connects although the entry is still fresh
C17_Witness ==
    /\ options.refresh /\ pc = "creating"
    /\ cacheFile.kind = "entry"
    /\ now - cacheFile.timestamp < CacheTimeout
    /\ ~cachedData.hit /\ attempts # <<>>

\* C18: a cache file with corrupted content never makes loadCache throw:
\* loadCache returns a miss and the run goes on to a live fetch.
C18_CorruptIsMiss ==
    (FileAsLoaded /\ cacheFile.kind \in CorruptKinds) =>
        /\ ~cachedData.hit
        /\ attempts # <<>>

\* C19: what saveCache wrote is what loadCache returns before the TTL has
\* passed and without --refresh, the empty list included.
C19_RoundTrip ==
    /\ []((LiveRows /\ cacheLog = "saved") =>
            /\ cacheFile.kind = "entry"
            /\ cacheFile.timestamp = now
            /\ cacheFile.data = results)
    /\ [][(/\ pc = "idle" /\ pc' # "idle"
           /\ cacheFile.kind = "entry"
           /\ ~options'.refresh
           /\ now - cacheFile.timestamp < CacheTimeout)
          => /\ cachedData'.hit
             /\ cachedData'.data = cacheFile.data
             /\ output'.source = "cache"]_vars

\* the empty list, saved by a run that found no validators, is read back
C19_Witness ==
    /\ pc = "done" /\ cachedData.hit
    /\ cacheFile.kind = "entry" /\ cacheFile.scope = "full"
    /\ cacheFile.data = <<>> /\ cachedData.data = <<>>
    /\ output = [kind |-> "table", rows |-> <<>>, source |-> "cache"]

\* C20: a run served from the unchanged cache entry, with the options of the
\* run before it, prints what that run printed, attempts no connection,
\* queries nothing and leaves the cache file as it is.
C20_RepeatedRunIdempotent ==
    [][(/\ pc = "idle" /\ run >= 1 /\ pc' = "done"
        /\ options' = options
        /\ cacheFile.kind = "entry"
        /\ cachedData'.hit)
       => /\ output'.kind = output.kind
          /\ output'.rows = output.rows
          /\ cacheFile' = cacheFile
          /\ attempts' = <<>>
          /\ api' = 0
          /\ \A e \in 1..NumProviders : provider'[e] = "none"
          /\ worker' = NoWorkers]_vars

\* The third run has the options of the second and both were served from the
\* entry of the first: the entry is of a single-identity run, which neither a
\* full-set run nor anything else has rewritten.
C20_Witness ==
    /\ pc = "done" /\ run = 3 /\ sameScope
    /\ cachedData.hit /\ cacheFile.kind = "entry"
    /\ options.validator = NoValidator /\ cacheFile.scope = "single"
    /\ output.kind = "table" /\ output.source = "cache"

\* C21: saveCache replaces the file atomically: at every point of a write,
\* and after a crash in the middle of it, the cache path holds the complete
\* previous entry or the complete new one, never a partially written file.
C21_NeverPartialFile == cacheFile.kind # "partial"

\* the index of v in a list of distinct validators
Position(list, v) == CHOOSE k \in 1..Len(list) : list[k] = v

SameStake(a, b) == ParseFloat(a.TotalActiveStake) = ParseFloat(b.TotalActiveStake)

\* C22: the rows of the full-set report are in non-increasing order of total
\* active stake, and rows of equal total active stake are in the order in
\* which they were enriched.
C22_SortedStable ==
    (LiveRows /\ options.validator = NoValidator) =>
        \A a, b \in 1..Len(results) :
            a < b =>
              /\ ~SortsBefore(results[b], results[a])
              /\ SameStake(results[a], results[b]) =>
                   Position(processValidators, results[a].Validator)
                     < Position(processValidators, results[b].Validator)

\* V3 has moved to the front; V1 and V2, of equal stake, are in their order
C22_Witness ==
    /\ LiveRows /\ options.validator = NoValidator
    /\ processValidators = <<"V1", "V2", "V3">>
    /\ Len(results) = 3
    /\ results[1].Validator = "V3"
    /\ results[2].Validator = "V1" /\ results[3].Validator = "V2"
    /\ SameStake(results[2], results[3])

Printed(v) == \E k \in 1..Len(output.rows) : output.rows[k].Validator = v

\* C23: the limit is applied after sorting: a live full-set run with limit L
\* prints the L rows of highest total active stake of the whole validator
\* set, so no validator left out has more than a printed one (here for runs
\* in which no query failed).
C23_LimitAfterSorting ==
    (/\ LiveRows /\ options.validator = NoValidator /\ options.limit # NoLimit
     /\ \A v \in DOMAIN worker : worker[v] = "done") =>
        \A k \in 1..Len(validators) :
            ~Printed(validators[k]) =>
                \A j \in 1..Len(output.rows) :
                    ~SortsBefore(ProcessValidator(ChainRaw(validators[k],
                                                           nominatorsMap)),
                                 output.rows[j])

\* C24: a single-identity request is by exact match: from the cache it prints
\* only the row of the requested validator, and live it queries the
\* requested validator and no other.
C24_SingleIdentityOnly ==
    (options.validator # NoValidator /\ pc # "idle") =>
        /\ DOMAIN worker \subseteq {options.validator}
        /\ processValidators \in {<<>>, <<options.validator>>}
        /\ validators = <<>>
        /\ output.kind = "table" =>
             /\ Len(output.rows) = 1
             /\ output.rows[1].Validator = options.validator
        /\ (output.kind = "table" /\ output.source = "cache") =>
             \E k \in 1..Len(cacheFile.data) : cacheFile.data[k] = output.rows[1]
        /\ output.kind = "notfound" =>
             \A k \in 1..Len(cacheFile.data) :
                cacheFile.data[k].Validator # options.validator

\* V2 is picked out of a cached full-set report in which it is not first
C24_Witness ==
    /\ pc = "done" /\ options.validator = "V2"
    /\ output.kind = "table" /\ output.source = "cache"
    /\ cacheFile.scope = "full" /\ Len(cacheFile.data) >= 2
    /\ cacheFile.data[1].Validator # "V2"
    /\ output.rows[1].Validator = "V2"

\* C25: a run in which every endpoint is unavailable, or in which an
\* exception reaches the top level, ends with a failure outcome, never with
\* the outcome of a successful run: the process that printed the error has
\* not exited with code 0.
C25_FailureExitsNonZero ==
    (pc = "idle" /\ run >= 1 /\ output.kind = "error") => exitCode # 0

\* the report a live run prints, of its results
CompleteReport ==
    IF options.validator = NoValidator /\ options.limit # NoLimit
    THEN Slice(results, options.limit) ELSE results

\* C26: a failure to write the cache file is not fatal: the run has printed
\* its complete report, no exception leaves saveCache, and the session is
\* disconnected.
C26_WriteFailureNotFatal ==
    (cacheLog = "error" /\ pc \in {"finally", "done"}) =>
        /\ output = [kind |-> "table", rows |-> CompleteReport, source |-> "live"]
        /\ Len(results) = Len(processValidators)
        /\ api # 0
        /\ pc = "done" => provider[api] = "closed"

\* the write failed half-way and the run has ended, disconnected
C26_Witness ==
    /\ pc = "done" /\ cacheLog = "error"
    /\ cacheFile.kind = "partial"
    /\ output.kind = "table" /\ Len(output.rows) >= 2
    /\ provider[api] = "closed"

\* C27: only a run whose computation succeeded writes the cache: during a run
\* the file changes in saveCache alone, saveCache is reached with the live
\* report printed, and a run that printed its report does not fail
\* afterwards; so a run that fails leaves the file as it was.
C27_FailedRunKeepsCache ==
    /\ [](pc \in {"saving", "writing"} =>
            /\ output = [kind |-> "table", rows |-> CompleteReport,
                         source |-> "live"]
            /\ Len(results) = Len(processValidators))
    /\ [][(pc # "idle" /\ cacheFile' # cacheFile)
            => pc \in {"saving", "writing"}]_vars
    /\ [][(output.source = "live" /\ output' # output) => pc = "idle"]_vars

\* a query of a refreshing run threw; the entry of the run before is there
C27_Witness ==
    /\ pc = "done" /\ output = ErrorOutput
    /\ api # 0 /\ options.refresh
    /\ cacheFile.kind = "entry" /\ cacheFile.timestamp < now

\* a printed amount in printed units
Units(x) == x.w * UnitsPerDot + x.f

\* u printed units is num / den planck rounded to the nearest unit
Nearest(u, num, den) ==
    /\ 2 * (u * den * PlanckPerUnit - num) <= den * PlanckPerUnit
    /\ 2 * (num - u * den * PlanckPerUnit) <= den * PlanckPerUnit

\* C28: in a row that is not the zero row, total stake is active stake plus
\* estimated inactive stake and total active stake is self stake plus active
\* stake, each sum taken of the unrounded values and then rounded to 4
\* decimals.
C28_SumsOfUnrounded ==
    est.pc \in {"planck", "printed"} =>
        LET active == SumValues(est.others)
            num == est.inactiveStake[1]
            den == est.inactiveStake[2]
        IN /\ Nearest(Units(est.row.InactiveNomination), num, den)
           /\ Nearest(Units(est.row.TotalNomination), active * den + num, den)
           /\ Nearest(Units(est.row.TotalActiveStake), est.selfBond + active, 1)
           /\ est.row.TotalNomination.d = 4 /\ est.row.TotalActiveStake.d = 4

\* both totals differ from the sums of the printed parts
C28_Witness ==
    /\ est.pc = "printed"
    /\ est.inactiveStake[1] > 0
    /\ Units(est.row.TotalNomination)
         # Units(est.row.ActiveNomination) + Units(est.row.InactiveNomination)
    /\ Units(est.row.TotalActiveStake)
         # Units(est.row.SelfBond) + Units(est.row.ActiveNomination)

\* the records of the registry that decode and name v among their targets
DecodedTargeting(v) ==
    {k \in 1..Len(ChainNominators) :
        /\ ChainNominators[k].decodes
        /\ \E t \in 1..Len(ChainNominators[k].targets) :
              ChainNominators[k].targets[t] = v}

\* C29: the targeting count of a validator's row is the number of decoded
\* registry records whose targets contain the validator; it comes from the
\* map built once in the run, the callbacks awaiting their three queries only.
C29_TargetingCount ==
    /\ LiveRows =>
         \A k \in 1..Len(results) :
            worker[results[k].Validator] = "done" =>
               results[k].Nominators[2]
                 = Cardinality(DecodedTargeting(results[k].Validator))
    /\ \A v \in DOMAIN worker :
         worker[v] \in {"prefs", "account", "exposure", "done", "failed"}
    /\ DOMAIN worker # {} => nominatorsMap # EmptyMap

\* three decoded records name V1, one names V3; the record that does not
\* decode is not counted
C29_Witness ==
    /\ LiveRows /\ options.validator = NoValidator /\ Len(results) = 3
    /\ \E k \in 1..3 : results[k].Validator = "V1" /\ results[k].Nominators[2] = 3
    /\ \E k \in 1..3 : results[k].Validator = "V3" /\ results[k].Nominators[2] = 1

\* C30: the map is complete before the first batch starts and no callback
\* changes it, so every callback of every batch reads the same map.
C30_MapReadOnly ==
    /\ [](DOMAIN worker # {} =>
            /\ DOMAIN nominatorsMap
                 = {ChainNominators[k].nominator :
                      k \in {j \in 1..Len(ChainNominators) : ChainNominators[j].decodes}}
            /\ \A k \in 1..Len(ChainNominators) :
                 ChainNominators[k].decodes =>
                   nominatorsMap[ChainNominators[k].nominator]
                     = ChainNominators[k].targets)
    /\ [](pc \in {"creating", "validators", "era", "nominators"} =>
            DOMAIN worker = {})
    /\ [][pc = "batch" => nominatorsMap' = nominatorsMap]_vars

\* callbacks of the second batch run on the map the first batch read
C30_Witness ==
    /\ pc = "batch" /\ i = BatchSize
    /\ worker["V1"] = "done" /\ worker["V2"] = "done"
    /\ worker["V3"] = "exposure"
    /\ Cardinality(DOMAIN nominatorsMap) = 3

\* C31: the commission percentage of every row is in [0, 100], for every
\* commission from 0 to 1 000 000 000 parts per billion.
C31_CommissionInRange ==
    Estimated =>
        /\ est.row.Commission.d = 2
        /\ est.row.Commission.w * 100 + est.row.Commission.f >= 0
        /\ est.row.Commission.w * 100 + est.row.Commission.f <= 100 * 100

\* the largest commission prints as 100.00
C31_Witness ==
    /\ est.pc = "cli" /\ est.commission = 1000000000
    /\ est.row.Commission = [w |-> 100, f |-> 0, d |-> 2]

\* C32: in a run with --validator and without --refresh, a valid cache entry
\* that does not hold the requested validator counts as a miss: the run goes
\* on to fetch the validator live.
C32_AbsentIdentityIsMiss ==
    (/\ pc = "done" /\ options.validator # NoValidator /\ ~options.refresh
     /\ cachedData.hit /\ cachedData.array
     /\ FindValidator(cachedData.data, options.validator) = <<>>)
        => attempts # <<>>

\* the rows a live full-set run with these options prints for the chain
LiveCount(opts) ==
    Len(Slice(SessionValidators,
              IF opts.limit # NoLimit THEN opts.limit ELSE MaxValidators))

\* C33: an entry written by a full-set run with limit L does not answer a
\* full-set run that asks for more rows or for all: a full-set run served
\* from the (non-empty) entry of a full-set run prints as many rows as a live
\* run with its options.
C33_CachedAsLive ==
    (/\ pc = "done" /\ options.validator = NoValidator
     /\ output.kind = "table" /\ output.source = "cache"
     /\ cacheFile.scope = "full" /\ cacheFile.data # <<>>)
        => Len(output.rows) = LiveCount(options)

\* the validators whose queries are in flight
InFlightSet == {v \in DOMAIN worker : InFlight(v)}

\* C34: at every moment the validators whose queries are in flight are at
\* most batchSize.
C34_InFlightAtMostBatch == Cardinality(InFlightSet) <= BatchSize

\* a whole first batch in flight, with more validators left for the next
C34_Witness ==
    /\ pc = "batch" /\ i = 0
    /\ Len(processValidators) > BatchSize
    /\ Cardinality(InFlightSet) = BatchSize

\* the row of v, by how its callback ended
ExpectedRow(v) ==
    IF worker[v] = "failed" THEN FailedRow(v)
    ELSE ProcessValidator(ChainRaw(v, nominatorsMap))

\* C35: before the sort the accumulated list has one row per processed
\* validator in the order of the validator list, however the callbacks of a
\* batch interleave; the sorted list is the sort of that list.
C35_RowsInInputOrder ==
    /\ (pc = "batch" /\ options.validator = NoValidator) =>
         /\ Len(results) = i
         /\ \A k \in 1..i : results[k] = ExpectedRow(processValidators[k])
    /\ LiveRows =>
         results = SortResults([k \in 1..Len(processValidators) |->
                                   ExpectedRow(processValidators[k])])

\* the first batch is in the list in input order, its second row zeroed
C35_Witness ==
    /\ pc = "batch" /\ i = BatchSize /\ Len(results) = 2
    /\ results[1].Validator = "V1"
    /\ results[2] = FailedRow("V2")
    /\ worker["V3"] = "prefs"

\* C36: when a run ends no connection is left: the provider of every failed
\* attempt has been released and the one session has been disconnected.
C36_NoProviderLeft ==
    pc = "done" => \A e \in 1..NumProviders : provider[e] \in {"none", "closed"}

\* C37 as stated: a vote is signed only if the answer to the confirmation
\* prompt was 'y', and every other answer ends the workflow without a
\* transaction.
C37_OnlyOnLowercaseY ==
    /\ vote.log # <<>> => vote.answer = "y"
    /\ (vote.pc \notin {"idle", "confirm"} /\ vote.answer # "y") =>
         (vote.pc = "cancelled" /\ vote.log = <<>>)

\* C37: a vote is signed only if the answer to the confirmation prompt was
\* 'y' in either case ('y' or 'Y'); every other answer ends the workflow
\* without a transaction.
C37_OnlyOnConfirmation ==
    /\ vote.log # <<>> => vote.answer \in {"y", "Y"}
    /\ (vote.pc \notin {"idle", "confirm"} /\ vote.answer \notin {"y", "Y"}) =>
         (vote.pc = "cancelled" /\ vote.log = <<>>)

\* "yes" cancels
C37_Witness ==
    vote.pc = "cancelled" /\ vote.answer = "yes" /\ vote.log = <<>>

\* C38: votes are sent one at a time in (account, referendum) order: each
\* transaction sent is the next of the plan, every transaction before the
\* last one sent is finalized, so at most one transaction sent is not
\* finalized.
C38_OneAtATimeInOrder ==
    /\ Len(vote.log) <= vote.accounts * vote.referendums
    /\ \A k \in 1..Len(vote.log) :
         /\ vote.log[k].account = VoteOrder(vote.accounts, vote.referendums)[k].account
         /\ vote.log[k].referendum = VoteOrder(vote.accounts, vote.referendums)[k].referendum
         /\ k < Len(vote.log) => vote.log[k].status = "finalized"
    /\ Cardinality({k \in 1..Len(vote.log) : vote.log[k].status # "finalized"}) <= 1

\* the third vote of a plan of four is broadcast, the two before it finalized
C38_Witness ==
    /\ vote.accounts = 2 /\ vote.referendums = 2 /\ Len(vote.log) = 3
    /\ vote.log[3] = [account |-> 2, referendum |-> 1, status |-> "broadcast"]
    /\ vote.log[2].status = "finalized"

\* C39: once confirmed, the workflow eventually reaches "All votes
\* submitted", whatever becomes of each transaction.
C39_EventuallySubmitted ==
    (vote.pc = "loop") ~> (vote.pc = "submitted")

====
